---- MODULE Spec2Model ----
(***************************************************************************)
(* SwarmHack tracking server (src/server.py).                              *)
(*                                                                         *)
(* Two activities share the global `tracker`:                              *)
(*   - Tracker.run, a thread that rebuilds tracker.robots from every       *)
(*     camera frame and calibrates the pixel-to-metre scale on corner tags *)
(*   - handler, one coroutine per websocket connection on one event loop,  *)
(*     that answers JSON requests by reading tracker.robots.               *)
(* The thread and the event loop interleave at bytecode granularity; the   *)
(* coroutines of different connections interleave only at their awaits.    *)
(*                                                                         *)
(* Number representation (TLC has integers only):                          *)
(*   - lengths in metres are kept in centimetres (2.06 m = 206, 0.3 m = 30)*)
(*   - a distance is kept as its exact square                              *)
(*   - scale_factor (pixels per unit length) is kept as the exact fraction *)
(*     <<n, d>> with scale_factor^2 = n / d                                *)
(*   - an angle atan2(y, x) is kept as the primitive direction <<y, x>>/gcd*)
(*     which determines it and is determined by it (atan2(0,0) = atan2(0,1)*)
(***************************************************************************)
EXTENDS Integers, Sequences, FiniteSets, TLC

VARIABLES
    tracker,   \* the global Tracker object: its fields, robots included
    run,       \* Tracker.run: position in the loop and its locals
    h,         \* the handler coroutine that is (or was last) inside a request
    conn,      \* conn[c]: whether connection c is open (its handler is alive)
    hist       \* history: the centres of the corner tags seen up to the end
               \* of the cycle that calibrates (corner_log), the tag IDs of
               \* the running cycle's frame (detected), the IDs the mapping
               \* held when that cycle began that are not among them (dropped)

vars == <<tracker, run, h, conn, hist>>

(***************************************************************************)
(* Bounds of the model and constants of the program.                       *)
(***************************************************************************)
MaxTags == 3            \* detections per frame, tracker-only specification
MaxTagsShared == 2      \* detections per frame, concurrent specification
NumConns == 1           \* websocket connections, concurrent specification
MaxConns == 2           \* websocket connections in all
MaxTagsConns == 1       \* detections per frame, specification of connections

CornerDistanceCm == 206 \* corner_distance_metres = 2.06
SensorRangeCm == 30     \* sensor_range = 0.3
CornerId == 0           \* reserved tag ID for corners

Conns == 1..NumConns

AllConns == 1..MaxConns

(***************************************************************************)
(* Arithmetic helpers.                                                     *)
(***************************************************************************)
Abs(n) == IF n < 0 THEN -n ELSE n

RECURSIVE Gcd(_, _)
Gcd(a, b) == IF b = 0 THEN a ELSE Gcd(b, a % b)

\* int(a / b) for b > 0: float division truncated towards zero
IntDiv(a, b) == IF a >= 0 THEN a \div b ELSE -((-a) \div b)

\* math.dist(p, q), squared
DistSq(p, q) == (p[1] - q[1]) * (p[1] - q[1]) + (p[2] - q[2]) * (p[2] - q[2])

\* math.degrees(math.atan2(y, x)), as the primitive direction of <<y, x>>
Atan2(y, x) ==
    IF x = 0 /\ y = 0 THEN <<0, 1>>
    ELSE LET g == Gcd(Abs(y), Abs(x)) IN <<IntDiv(y, g), IntDiv(x, g)>>

(***************************************************************************)
(* Insertion-ordered dictionaries (Python dict): sequences of [k, v].      *)
(***************************************************************************)
DictKeys(d) == [n \in 1..Len(d) |-> d[n].k]

DictHas(d, key) == \E n \in 1..Len(d) : d[n].k = key

DictIndex(d, key) == CHOOSE n \in 1..Len(d) : d[n].k = key

DictGet(d, key) == d[DictIndex(d, key)].v

\* d[key] = value: an existing key keeps its place, a new key goes last
DictSet(d, key, value) ==
    IF DictHas(d, key)
    THEN [d EXCEPT ![DictIndex(d, key)] = [k |-> key, v |-> value]]
    ELSE Append(d, [k |-> key, v |-> value])

KeySet(d) == {d[n].k : n \in 1..Len(d)}

(***************************************************************************)
(* class Tag: a raw detection is [id, corners], corners a sequence of      *)
(* pixel points <<x, y>>.                                                  *)
(***************************************************************************)
\* corners[0..3] are indexed without a length check: fewer raise IndexError
TagRaises(raw_tag) == Len(raw_tag.corners) < 4

Tag(id, raw_tag) ==
    LET corners == raw_tag.corners
        tl == corners[1]
        tr == corners[2]
        br == corners[3]
        bl == corners[4]
        centre == <<IntDiv(tl[1] + tr[1] + br[1] + bl[1], 4),
                    IntDiv(tl[2] + tr[2] + br[2] + bl[2], 4)>>
        front == <<IntDiv(tl[1] + tr[1], 2), IntDiv(tl[2] + tr[2], 2)>>
    IN  [id |-> id, tl |-> tl, tr |-> tr, br |-> br, bl |-> bl,
         centre |-> centre, front |-> front,
         angle |-> Atan2(front[2] - centre[2], front[1] - centre[1])]

(***************************************************************************)
(* class Robot, class SensorReading.                                       *)
(***************************************************************************)
Robot(tag, position) ==
    [id |-> tag.id, position |-> position, orientation |-> tag.angle,
     sensor_range |-> SensorRangeCm, neighbours |-> <<>>]

SensorReading(range, bearing, orientation) ==
    [range |-> range, bearing |-> bearing, orientation |-> orientation]

(***************************************************************************)
(* Tracker.__init__                                                        *)
(***************************************************************************)
TrackerInit ==
    [calibrated |-> FALSE, num_corner_tags |-> 0,
     min_x |-> 0, min_y |-> 0, max_x |-> 0, max_y |-> 0,
     corner_distance_pixels |-> 0,
     scale_factor |-> <<0, 1>>,
     robots |-> <<>>]

(***************************************************************************)
(* Tracker.run, one detection: the body of the loop over zip(tag_ids,      *)
(* raw_tags), lines 96-128, as a function of the tracker's fields.         *)
(***************************************************************************)
\* tag.centre.x / self.scale_factor, tag.centre.y / self.scale_factor:
\* the quotient is kept as numerators x, y over the divisor `per`
Position(centre, scale_factor) ==
    [x |-> centre[1], y |-> centre[2], per |-> scale_factor]

\* corner_distance_pixels / corner_distance_metres, squared
ScaleFactor(corner_distance_pixels) ==
    <<corner_distance_pixels, CornerDistanceCm * CornerDistanceCm>>

\* RecordFirstCorner without lines 110 and 112
RecordFirstCornerMinOnly(t, centre) ==
    [t EXCEPT !.min_x = centre[1], !.min_y = centre[2]]

\* lines 109-112: record the first corner tag detected
RecordFirstCorner(t, centre) ==
    [t EXCEPT !.min_x = centre[1], !.max_x = centre[1],
              !.min_y = centre[2], !.max_y = centre[2]]

\* WidenBounds without lines 119-120
WidenBoundsNoMinY(t, centre) ==
    [t EXCEPT !.min_x = IF centre[1] < @ THEN centre[1] ELSE @,
              !.max_x = IF centre[1] > @ THEN centre[1] ELSE @,
              !.max_y = IF centre[2] > @ THEN centre[2] ELSE @]

\* lines 115-122: widen the bounds by a further corner tag
WidenBounds(t, centre) ==
    [t EXCEPT !.min_x = IF centre[1] < @ THEN centre[1] ELSE @,
              !.max_x = IF centre[1] > @ THEN centre[1] ELSE @,
              !.min_y = IF centre[2] < @ THEN centre[2] ELSE @,
              !.max_y = IF centre[2] > @ THEN centre[2] ELSE @]

\* lines 124-126
Calibrate(t) ==
    LET pixels == DistSq(<<t.min_x, t.min_y>>, <<t.max_x, t.max_y>>)
    IN  [t EXCEPT !.corner_distance_pixels = pixels,
                  !.scale_factor = ScaleFactor(pixels),
                  !.calibrated = TRUE]

\* CornerTag without lines 115-122: the second corner tag is not taken in
CornerTagKeepsFirst(t, centre) ==
    LET t1 == IF t.num_corner_tags = 0
              THEN RecordFirstCorner(t, centre)
              ELSE Calibrate(t)
    IN  [t1 EXCEPT !.num_corner_tags = @ + 1]

\* lines 106-128: a corner tag seen while not calibrated
CornerTag(t, centre) ==
    LET t1 == IF t.num_corner_tags = 0
              THEN RecordFirstCorner(t, centre)
              ELSE Calibrate(WidenBounds(t, centre))
    IN  [t1 EXCEPT !.num_corner_tags = @ + 1]

\* TrackTag without the test of line 101
TrackTagAnyId(t, id, tag) ==
    [t EXCEPT !.robots =
        DictSet(@, id, Robot(tag, Position(tag.centre, t.scale_factor)))]

\* lines 101-103: a tag seen once calibrated
TrackTag(t, id, tag) ==
    IF tag.id # CornerId
    THEN [t EXCEPT !.robots =
              DictSet(@, id, Robot(tag, Position(tag.centre, t.scale_factor)))]
    ELSE t

\* the exceptions of one iteration: IndexError in Tag.__init__ (line 29-32),
\* ZeroDivisionError in the conversion to metres (line 102)
ProcessTagRaises(t, det) ==
    \/ TagRaises(det)
    \/ t.calibrated /\ det.id # CornerId /\ t.scale_factor[1] = 0

\* ProcessTag with the test of line 106 put before that of line 100: corner
\* tags go on to calibrate
ProcessTagRecalibrates(t, det) ==
    LET tag == Tag(det.id, det)
    IN  IF tag.id = CornerId THEN CornerTag(t, tag.centre)
        ELSE IF t.calibrated THEN TrackTag(t, det.id, tag)
        ELSE t

\* ProcessTag without the test of line 100: robots are built whether the
\* tracker is calibrated or not
ProcessTagTracksUncalibrated(t, det) ==
    LET tag == Tag(det.id, det)
    IN  IF tag.id # CornerId THEN TrackTag(t, det.id, tag)
        ELSE IF t.calibrated THEN t
        ELSE CornerTag(t, tag.centre)

ProcessTag(t, det) ==
    LET tag == Tag(det.id, det)
    IN  IF t.calibrated THEN TrackTag(t, det.id, tag)
        ELSE IF tag.id = CornerId THEN CornerTag(t, tag.centre)
        ELSE t

(***************************************************************************)
(* Tracker.run, the neighbour pass, lines 136-146: one ordered pair, the   *)
(* i-th and the j-th entry of self.robots.                                 *)
(***************************************************************************)
\* math.dist of two positions, squared: pixel distance^2 / scale_factor^2
RangeSq(p, q) ==
    <<DistSq(<<p.x, p.y>>, <<q.x, q.y>>) * p.per[2], p.per[1]>>

\* InRange on the pixel distance: the division by scale_factor is left out
InRangeUnscaled(range, sensor_range) ==
    range[1] < sensor_range * sensor_range

\* range < robot.sensor_range, on the squares (both sides are >= 0)
InRange(range, sensor_range) ==
    range[1] < sensor_range * sensor_range * range[2]

Bearing(p, q) == Atan2(q.y - p.y, q.x - p.x)

\* NeighbourPair without the test of line 140
NeighbourPairNoSelfTest(robots, i, j) ==
    LET robot == robots[i].v
        other_robot == robots[j].v
        range == RangeSq(robot.position, other_robot.position)
    IN  IF InRange(range, robot.sensor_range)
        THEN [robots EXCEPT ![i].v.neighbours =
                 DictSet(@, robots[j].k,
                         SensorReading(range,
                                       Bearing(robot.position, other_robot.position),
                                       other_robot.orientation))]
        ELSE robots

NeighbourPair(robots, i, j) ==
    LET robot == robots[i].v
        other_robot == robots[j].v
        range == RangeSq(robot.position, other_robot.position)
    IN  IF robots[i].k # robots[j].k /\ InRange(range, robot.sensor_range)
        THEN [robots EXCEPT ![i].v.neighbours =
                 DictSet(@, robots[j].k,
                         SensorReading(range,
                                       Bearing(robot.position, other_robot.position),
                                       other_robot.orientation))]
        ELSE robots

(***************************************************************************)
(* A whole cycle: the loop body folded over the detections of a frame,     *)
(* then the neighbour pass folded over the ordered pairs.                  *)
(***************************************************************************)
RECURSIVE RunTags(_, _)
RunTags(t, frame) ==
    IF frame = <<>> THEN [ok |-> TRUE, t |-> t]
    ELSE IF ProcessTagRaises(t, Head(frame)) THEN [ok |-> FALSE, t |-> t]
    ELSE RunTags(ProcessTag(t, Head(frame)), Tail(frame))

RECURSIVE RunNeighbours(_, _, _)
RunNeighbours(robots, i, j) ==
    IF i > Len(robots) THEN robots
    ELSE IF j > Len(robots) THEN RunNeighbours(robots, i + 1, 1)
    ELSE RunNeighbours(NeighbourPair(robots, i, j), i, j + 1)

\* a mapping as a completed cycle leaves it: the neighbour pass has nothing
\* to add to it
Complete(robots) == RunNeighbours(robots, 1, 1) = robots

(***************************************************************************)
(* Detector output (cv2.aruco.detectMarkers, an external collaborator):    *)
(* the raw detections a frame may hold.  A frame holds each physical       *)
(* marker at most once and no two robot markers with the same ID.          *)
(***************************************************************************)
\* an upright square marker of side 2 centred on <<x, y>>
Upright(x, y) ==
    << <<x - 1, y - 1>>, <<x + 1, y - 1>>, <<x + 1, y + 1>>, <<x - 1, y + 1>> >>

\* the same marker turned upside down
Turned(x, y) ==
    << <<x + 1, y + 1>>, <<x - 1, y + 1>>, <<x - 1, y - 1>>, <<x + 1, y - 1>> >>

CornerP1 == [id |-> CornerId, corners |-> Upright(1, 11)]
CornerP2 == [id |-> CornerId, corners |-> Upright(21, 1)]
CornerP3 == [id |-> CornerId, corners |-> Turned(11, 21)]
\* side 3: the centre <<5.5, 5.5>> is truncated to <<5, 5>>
RobotA == [id |-> 1, corners |-> << <<4, 4>>, <<7, 4>>, <<7, 7>>, <<4, 7>> >>]
RobotB == [id |-> 2, corners |-> Turned(7, 5)]
RobotBFar == [id |-> 2, corners |-> Upright(17, 5)]
RobotC == [id |-> 3, corners |-> Upright(5, 7)]
Malformed == [id |-> 3, corners |-> << <<4, 4>>, <<7, 4>>, <<7, 7>> >>]

SharedTags == {CornerP1, CornerP2, RobotA, RobotB}
AllTags == SharedTags \cup {CornerP3, RobotBFar, RobotC, Malformed}

IsFrame(f) ==
    \A m, n \in 1..Len(f) :
        m # n => /\ f[m] # f[n]
                 /\ f[m].id = f[n].id => f[m].id = CornerId

Frames(tags, max) ==
    {f \in UNION {[1..m -> tags] : m \in 0..max} : IsFrame(f)}

(***************************************************************************)
(* Requests (the packets a client may send).                               *)
(***************************************************************************)
Recognized == {"check_awake", "get_ids", "get_robot", "get_robots"}
FieldNames == Recognized \cup {"other"}
RequestIds == {1, 7}    \* values of get_robot: a robot marker, and no marker

\* kind "invalid": not JSON.  kind "scalar": a JSON number, null or boolean.
\* kind "array": a JSON array of strings (a JSON string behaves alike:
\* `in` is then a substring test).  kind "object": a JSON object.
Object(fields, id) == [kind |-> "object", fields |-> fields, get_robot |-> id]

Packets ==
    {[kind |-> "invalid", fields |-> {}, get_robot |-> 0],
     [kind |-> "scalar", fields |-> {}, get_robot |-> 0],
     [kind |-> "array", fields |-> {"check_awake"}, get_robot |-> 0],
     [kind |-> "array", fields |-> {"get_robot"}, get_robot |-> 0],
     Object({}, 0),
     Object({"other"}, 0),
     Object({"check_awake"}, 0),
     Object({"get_ids"}, 0),
     Object({"get_robots"}, 0),
     Object({"check_awake", "get_ids"}, 0),
     Object({"get_ids", "get_robots"}, 0),
     Object({"check_awake", "other"}, 0)}
    \cup {Object({"get_robot"}, id) : id \in RequestIds}
    \cup {Object({"get_ids", "get_robot"}, id) : id \in RequestIds}

(***************************************************************************)
(* handler: the locals of the coroutine inside a request.  Coroutines of   *)
(* different connections switch only at `async for` and `await send`, so   *)
(* at most one of them is between the two.                                 *)
(*                                                                         *)
(* ref tells which dict object the running iteration holds: "live" is the  *)
(* object tracker.robots names now, "stale" an object the tracker has      *)
(* replaced since (its content, final, is sval).                           *)
(***************************************************************************)
EmptyReply ==
    [has |-> {}, ids |-> <<>>, orientation |-> <<0, 1>>, neighbours |-> <<>>,
     entries |-> <<>>]

NoIter == [used |-> 0, pos |-> 0]

HandlerInit ==
    [pc |-> "idle", conn |-> 0,
     message |-> [kind |-> "object", fields |-> {}, get_robot |-> 0],
     reply |-> EmptyReply, send_reply |-> FALSE,
     ref |-> "none", sval |-> <<>>, key |-> 0, dit |-> NoIter, nit |-> NoIter,
     sent |-> 0, outcome |-> "none", error |-> "none", torn |-> FALSE]

\* `name in message` for a dict (a key) and for a list (an element)
In(name, message) == name \in message.fields

\* the if statements of lines 216, 220, 233 still ahead after section `done`
Sections == <<"get_ids", "get_robot", "get_robots">>

NextSection(message, done) ==
    LET ahead == {n \in (done + 1)..3 : In(Sections[n], message)}
    IN  IF ahead = {} THEN "send"
        ELSE Sections[CHOOSE n \in ahead : \A m \in ahead : n <= m]

\* the dict object the iteration holds
Held(hh, robots) == IF hh.ref = "stale" THEN hh.sval ELSE robots

\* self.robots = {} (line 87) leaves a held dict to its last holder
Detach(hh, robots) ==
    IF hh.ref = "live" THEN [hh EXCEPT !.ref = "stale", !.sval = robots] ELSE hh

\* a read of the mapping by the handler, for the record: whether some read
\* of the request saw a mapping that no completed cycle leaves
Observe(hh, value) ==
    [hh EXCEPT !.torn = @ \/ ~Complete(value)]

\* an exception leaves the coroutine: websockets closes the connection
Raise(hh, error) ==
    [hh EXCEPT !.pc = "idle", !.outcome = "raised", !.error = error,
               !.ref = "none", !.sval = <<>>, !.key = 0,
               !.dit = NoIter, !.nit = NoIter]

\* lines 248-250: `sent` counts the calls of websocket.send for the request
Send(hh) ==
    [hh EXCEPT !.pc = "idle",
               !.sent = IF hh.send_reply THEN @ + 1 ELSE @,
               !.outcome = IF hh.send_reply THEN "replied" ELSE "silent",
               !.ref = "none", !.sval = <<>>, !.key = 0,
               !.dit = NoIter, !.nit = NoIter]

\* go on to the next if statement of the request, or to the send
Goto(hh, done) ==
    LET pc == NextSection(hh.message, done)
    IN  IF pc = "send" THEN Send(hh) ELSE [hh EXCEPT !.pc = pc]

\* a neighbour's entry of a reply, lines 226-229 and 241-244
ReadingReply(neighbour) ==
    [range |-> neighbour.range, bearing |-> neighbour.bearing,
     orientation |-> neighbour.orientation]

(***************************************************************************)
(* handler, step by step, as functions of the coroutine's locals and of    *)
(* the dict tracker.robots names at that moment.                           *)
(***************************************************************************)
\* record a read of the held dict
ObserveHeld(hh, robots) == Observe(hh, Held(hh, robots))

\* Loads with send_reply = True at line 210
LoadsSendsAlways(c, packet) ==
    LET start == [HandlerInit EXCEPT !.conn = c, !.message = packet,
                                     !.send_reply = TRUE]
    IN  IF packet.kind = "invalid" THEN Raise(start, "JSONDecodeError")
        ELSE IF packet.kind = "scalar" THEN Raise(start, "TypeError")
        ELSE IF In("check_awake", packet)
             THEN Goto([start EXCEPT !.reply.has = {"awake"}], 0)
             ELSE Goto(start, 0)

\* lines 205-214: a packet arrives on connection c
Loads(c, packet) ==
    LET start == [HandlerInit EXCEPT !.conn = c, !.message = packet]
    IN  IF packet.kind = "invalid" THEN Raise(start, "JSONDecodeError")
        ELSE IF packet.kind = "scalar" THEN Raise(start, "TypeError")
        ELSE IF In("check_awake", packet)
             THEN Goto([start EXCEPT !.reply.has = {"awake"},
                                     !.send_reply = TRUE], 0)
             ELSE Goto(start, 0)

\* GetIdsStep with reply = {"ids": ...} in place of reply["ids"] = ...
GetIdsStepOverwrites(hh, robots) ==
    Goto(Observe([hh EXCEPT !.reply = [EmptyReply EXCEPT
                                           !.ids = DictKeys(robots),
                                           !.has = {"ids"}],
                            !.send_reply = TRUE],
                 robots),
         1)

\* lines 216-218
GetIdsStep(hh, robots) ==
    Goto(Observe([hh EXCEPT !.reply.ids = DictKeys(robots),
                            !.reply.has = @ \cup {"ids"},
                            !.send_reply = TRUE],
                 robots),
         1)

\* lines 220-223
GetRobotStep(hh, robots) ==
    LET id == hh.message.get_robot
        h1 == Observe(hh, robots)
    IN  IF hh.message.kind # "object" THEN Raise(hh, "TypeError")
        ELSE IF ~DictHas(robots, id) THEN Raise(h1, "KeyError")
        ELSE [h1 EXCEPT !.reply.orientation = DictGet(robots, id).orientation,
                        !.reply.neighbours = <<>>,
                        !.reply.has = @ \cup {"orientation", "neighbours"},
                        !.pc = "get_robot_items"]

\* line 225, tracker.robots[id].neighbours.items(): a second lookup
GetRobotItemsStep(hh, robots) ==
    LET id == hh.message.get_robot
        h1 == Observe(hh, robots)
    IN  IF ~DictHas(robots, id) THEN Raise(h1, "KeyError")
        ELSE [h1 EXCEPT !.ref = "live", !.key = id,
                        !.nit = [used |-> Len(DictGet(robots, id).neighbours),
                                 pos |-> 0],
                        !.pc = "get_robot_next"]

\* lines 225-231: the next neighbour of the robot of get_robot
GetRobotNextStep(hh, robots) ==
    LET neighbours == DictGet(Held(hh, robots), hh.key).neighbours
        h1 == ObserveHeld(hh, robots)
    IN  IF Len(neighbours) # hh.nit.used THEN Raise(h1, "RuntimeError")
        ELSE IF hh.nit.pos >= Len(neighbours)
             THEN Goto([h1 EXCEPT !.send_reply = TRUE, !.ref = "none",
                                  !.sval = <<>>, !.key = 0, !.nit = NoIter],
                       2)
        ELSE LET e == neighbours[hh.nit.pos + 1]
             IN  [h1 EXCEPT !.reply.neighbours =
                                DictSet(@, e.k, ReadingReply(e.v)),
                            !.nit.pos = @ + 1]

\* lines 233-235, tracker.robots.items()
GetRobotsStep(hh, robots) ==
    [Observe(hh, robots)
        EXCEPT !.ref = "live", !.dit = [used |-> Len(robots), pos |-> 0],
               !.pc = "get_robots_next"]

\* lines 235-240, and 246 when the mapping is exhausted
GetRobotsNextStep(hh, robots) ==
    LET held == Held(hh, robots)
        h1 == ObserveHeld(hh, robots)
    IN  IF Len(held) # hh.dit.used THEN Raise(h1, "RuntimeError")
        ELSE IF hh.dit.pos >= Len(held)
             THEN Send([h1 EXCEPT !.send_reply = TRUE])
        ELSE LET e == held[hh.dit.pos + 1]
             IN  [h1 EXCEPT !.reply.entries =
                                DictSet(@, e.k,
                                        [orientation |-> e.v.orientation,
                                         neighbours |-> <<>>]),
                            !.key = e.k,
                            !.nit = [used |-> Len(e.v.neighbours), pos |-> 0],
                            !.dit.pos = @ + 1,
                            !.pc = "get_robots_neighbours"]

\* lines 240-244: the next neighbour of the robot the outer loop is at
GetRobotsNeighboursStep(hh, robots) ==
    LET neighbours == DictGet(Held(hh, robots), hh.key).neighbours
        h1 == ObserveHeld(hh, robots)
    IN  IF Len(neighbours) # hh.nit.used THEN Raise(h1, "RuntimeError")
        ELSE IF hh.nit.pos >= Len(neighbours)
             THEN [h1 EXCEPT !.key = 0, !.nit = NoIter,
                             !.pc = "get_robots_next"]
        ELSE LET e == neighbours[hh.nit.pos + 1]
                 n == DictIndex(hh.reply.entries, hh.key)
             IN  [h1 EXCEPT !.reply.entries[n].v.neighbours =
                                DictSet(@, e.k, ReadingReply(e.v)),
                            !.nit.pos = @ + 1]

(***************************************************************************)
(* Actions of the handler.                                                 *)
(***************************************************************************)
\* websockets.serve starts a handler for a new connection
Connect(c) ==
    /\ ~conn[c]
    /\ conn' = [conn EXCEPT ![c] = TRUE]
    /\ h' = IF h.conn = c THEN HandlerInit ELSE h
    /\ UNCHANGED <<tracker, run, hist>>

\* the client closes: `async for` ends and the handler returns
Disconnect(c) ==
    /\ conn[c]
    /\ h.pc = "idle"
    /\ conn' = [conn EXCEPT ![c] = FALSE]
    /\ UNCHANGED <<tracker, run, h, hist>>

\* Closes where an exception of one handler ends the server: every
\* connection is closed
ClosesAll(hh) ==
    IF hh.outcome = "raised" THEN [c \in AllConns |-> FALSE] ELSE conn

\* the effect of a handler step on the connections
Closes(hh) ==
    IF hh.outcome = "raised" THEN [conn EXCEPT ![hh.conn] = FALSE] ELSE conn

Receive(c, packet) ==
    /\ conn[c]
    /\ h.pc = "idle"
    /\ h' = Loads(c, packet)
    /\ conn' = Closes(h')
    /\ UNCHANGED <<tracker, run, hist>>

HandlerAt(pc, next) ==
    /\ h.pc = pc
    /\ h' = next
    /\ conn' = Closes(h')
    /\ UNCHANGED <<tracker, run, hist>>

GetIds == HandlerAt("get_ids", GetIdsStep(h, tracker.robots))

GetRobot ==
    HandlerAt("get_robot", GetRobotStep(h, tracker.robots))

GetRobotItems ==
    HandlerAt("get_robot_items",
              GetRobotItemsStep(h, tracker.robots))

GetRobotNext ==
    HandlerAt("get_robot_next",
              GetRobotNextStep(h, tracker.robots))

GetRobots ==
    HandlerAt("get_robots", GetRobotsStep(h, tracker.robots))

GetRobotsNext ==
    HandlerAt("get_robots_next",
              GetRobotsNextStep(h, tracker.robots))

GetRobotsNeighbours ==
    HandlerAt("get_robots_neighbours",
              GetRobotsNeighboursStep(h, tracker.robots))

(***************************************************************************)
(* Actions of Tracker.run.  Drawing, display and the quit key (lines       *)
(* 132-133, 148-202) touch no field of the tracker and are left out.       *)
(***************************************************************************)
\* was_calibrated, corners_before: self.calibrated and self.num_corner_tags
\* as the running cycle found them
RunIdle == [pc |-> "frame", frame |-> <<>>, i |-> 0, j |-> 0,
            was_calibrated |-> FALSE, corners_before |-> 0]

\* where the loop stands once `frame` is what is left of the detections:
\* at the next detection, at the neighbour pass (lines 130, 136), or, the
\* cycle over, at the next frame
AfterTags(t, r, frame) ==
    IF frame # <<>> THEN [r EXCEPT !.pc = "tags", !.frame = frame]
    ELSE IF t.calibrated /\ t.robots # <<>>
    THEN [r EXCEPT !.pc = "neighbours", !.frame = <<>>, !.i = 1, !.j = 1]
    ELSE [r EXCEPT !.pc = "frame", !.frame = <<>>]

\* the tag IDs of a frame (tag_ids, lines 92-93)
FrameIds(f) == {f[n].id : n \in 1..Len(f)}

\* GetFrame without line 87: the mapping is kept from cycle to cycle
GetFrameKeepsRobots(frames, keep) ==
    /\ run.pc = "frame"
    /\ tracker' = tracker
    /\ \E f \in frames :
          /\ run' = AfterTags(tracker',
                              [RunIdle EXCEPT
                                  !.was_calibrated = tracker.calibrated,
                                  !.corners_before = tracker.num_corner_tags],
                              f)
          /\ hist' = IF keep
                     THEN [corner_log |-> IF tracker.calibrated THEN <<>>
                                          ELSE hist.corner_log,
                           detected |-> FrameIds(f),
                           dropped |-> KeySet(tracker.robots) \ FrameIds(f)]
                     ELSE hist
    /\ UNCHANGED <<h, conn>>

\* lines 79-93: the next frame is detected and self.robots starts empty
GetFrame(frames, keep) ==
    /\ run.pc = "frame"
    /\ tracker' = [tracker EXCEPT !.robots = <<>>]
    /\ \E f \in frames :
          /\ run' = AfterTags(tracker',
                              [RunIdle EXCEPT
                                  !.was_calibrated = tracker.calibrated,
                                  !.corners_before = tracker.num_corner_tags],
                              f)
          /\ hist' = IF keep
                     THEN [corner_log |-> IF tracker.calibrated THEN <<>>
                                          ELSE hist.corner_log,
                           detected |-> FrameIds(f),
                           dropped |-> KeySet(tracker.robots) \ FrameIds(f)]
                     ELSE hist
    /\ h' = Detach(h, tracker.robots)
    /\ UNCHANGED conn

\* lines 96-128: one detection; an exception ends the thread
NextTag(keep) ==
    /\ run.pc = "tags"
    /\ LET det == Head(run.frame)
       IN  IF ProcessTagRaises(tracker, det)
           THEN /\ run' = [RunIdle EXCEPT !.pc = "crashed"]
                /\ UNCHANGED <<tracker, hist>>
           ELSE /\ tracker' = ProcessTag(tracker, det)
                /\ run' = AfterTags(tracker', run, Tail(run.frame))
                /\ hist' = IF keep /\ det.id = CornerId /\ ~run.was_calibrated
                           THEN [hist EXCEPT !.corner_log =
                                    Append(@, Tag(det.id, det).centre)]
                           ELSE hist
    /\ UNCHANGED <<h, conn>>

\* lines 136-146: one ordered pair of the neighbour pass
NextPair ==
    /\ run.pc = "neighbours"
    /\ tracker' = [tracker EXCEPT !.robots = NeighbourPair(@, run.i, run.j)]
    /\ run' = IF run.j < Len(tracker.robots) THEN [run EXCEPT !.j = @ + 1]
              ELSE IF run.i < Len(tracker.robots)
              THEN [run EXCEPT !.i = @ + 1, !.j = 1]
              ELSE [run EXCEPT !.pc = "frame", !.i = 0, !.j = 0]
    /\ UNCHANGED <<h, conn, hist>>

(***************************************************************************)
(* Specifications.                                                         *)
(***************************************************************************)
Init ==
    /\ tracker = TrackerInit
    /\ run = RunIdle
    /\ h = HandlerInit
    /\ conn = [c \in AllConns |-> FALSE]
    /\ hist = [corner_log |-> <<>>, detected |-> {}, dropped |-> {}]

\* keep: whether the history of the cycles is recorded in hist
TrackerNext(frames, keep) ==
    \/ GetFrame(frames, keep)
    \/ NextTag(keep)
    \/ NextPair

\* conns: the connections that clients make
HandlerNext(conns) ==
    \/ \E c \in conns : Connect(c)
    \/ \E c \in conns : Disconnect(c)
    \/ \E c \in conns, packet \in Packets : Receive(c, packet)
    \/ GetIds
    \/ GetRobot
    \/ GetRobotItems
    \/ GetRobotNext
    \/ GetRobots
    \/ GetRobotsNext
    \/ GetRobotsNeighbours

\* the tracker thread and the event loop, interleaved
Next ==
    TrackerNext(Frames(SharedTags, MaxTagsShared), FALSE) \/ HandlerNext(Conns)

Spec == Init /\ [][Next]_vars

\* the tracker thread alone, on a wider range of frames, with its history
NextTracker == TrackerNext(Frames(AllTags, MaxTags), TRUE)

SpecTracker == Init /\ [][NextTracker]_vars

\* the tracker thread and the event loop with several connections, on short
\* frames
ConnsTags == {CornerP1, CornerP2, RobotA}

NextConns ==
    TrackerNext(Frames(ConnsTags, MaxTagsConns), FALSE) \/ HandlerNext(AllConns)

SpecConns == Init /\ [][NextConns]_vars

(***************************************************************************)
(* The reply an atomic reader gives: the handler run from the packet to    *)
(* the send against one unchanging mapping.                                *)
(***************************************************************************)
StepAt(hh, robots) ==
    CASE hh.pc = "get_ids" -> GetIdsStep(hh, robots)
      [] hh.pc = "get_robot" -> GetRobotStep(hh, robots)
      [] hh.pc = "get_robot_items" -> GetRobotItemsStep(hh, robots)
      [] hh.pc = "get_robot_next" -> GetRobotNextStep(hh, robots)
      [] hh.pc = "get_robots" -> GetRobotsStep(hh, robots)
      [] hh.pc = "get_robots_next" -> GetRobotsNextStep(hh, robots)
      [] hh.pc = "get_robots_neighbours" -> GetRobotsNeighboursStep(hh, robots)
      [] OTHER -> hh

RECURSIVE Serve(_, _)
Serve(hh, robots) ==
    IF hh.pc = "idle" THEN hh ELSE Serve(StepAt(hh, robots), robots)

\* the mappings completed cycles leave, under the calibration of tracker t
\* (frozen once it is set), for the frames of the concurrent specification
CycleMappings(t) ==
    {RunNeighbours(res.t.robots, 1, 1) :
        res \in {r \in {RunTags([t EXCEPT !.robots = <<>>], f) :
                           f \in Frames(SharedTags, MaxTagsShared)} : r.ok}}

\* the request the handler has dealt with last, once it is through with it
Done == h.pc = "idle" /\ h.outcome # "none"

IsRequest == h.message.kind = "object"

Asked == h.message.fields \cap Recognized

(***************************************************************************)
(* C1. Snapshot atomicity: every read of the robot mapping by a handler    *)
(* sees the complete mapping of a cycle, never an intermediate one.  The   *)
(* formula states a necessary part of it: no read sees a mapping to which   *)
(* the neighbour pass still has entries to add.                            *)
(***************************************************************************)
C1_SnapshotAtomicity == ~h.torn

(***************************************************************************)
(* C2. Per-request consistency: every field of a reply is derived from one *)
(* and the same cycle's mapping, i.e. the reply sent is the reply that the *)
(* request gets from some one completed cycle's mapping.                   *)
(***************************************************************************)
C2_PerRequestConsistency ==
    (Done /\ h.outcome = "replied") =>
        \E m \in CycleMappings(tracker) :
            Serve(Loads(h.conn, h.message), m).reply = h.reply

(***************************************************************************)
(* C3. A get_robot request for an ID that is not in the mapping (7 is the  *)
(* ID of no marker) is answered by a reply with an error indicator, and    *)
(* the handler stays alive.                                                *)
(***************************************************************************)
C3_UnknownRobotAnswered ==
    (Done /\ IsRequest /\ "get_robot" \in Asked /\ h.message.get_robot = 7) =>
        /\ h.outcome = "replied"
        /\ "error" \in h.reply.has
        /\ h.error = "none"

(***************************************************************************)
(* C4. A packet that is not JSON, or is JSON but no object, is dropped and *)
(* the connection is kept: the handler does not end on it.                 *)
(***************************************************************************)
C4_BadPacketDropped == (Done /\ ~IsRequest) => h.outcome # "raised"

(***************************************************************************)
(* C5. Every request with a recognized field is answered, whatever the     *)
(* tracker does meanwhile.  Stated for the requests that name no robot     *)
(* (no get_robot), which cannot fail for an unknown ID.                    *)
(***************************************************************************)
C5_EveryRequestAnswered ==
    (Done /\ IsRequest /\ Asked # {} /\ "get_robot" \notin Asked) =>
        h.outcome = "replied"

(***************************************************************************)
(* C6. For each request the handler sends at most one reply, and none when *)
(* the request has no recognized field: such a request is passed over      *)
(* without a reply and without an error.                                   *)
(***************************************************************************)
C6_AtMostOneReply ==
    /\ h.sent <= 1
    /\ (Done /\ IsRequest /\ Asked = {}) =>
           (h.sent = 0 /\ h.outcome = "silent" /\ h.error = "none")

C6_Witness ==
    /\ Done /\ IsRequest
    /\ h.message.fields = {"other"}
    /\ h.outcome = "silent"
    /\ conn[h.conn]

(***************************************************************************)
(* C7. A reply holds the reply fields of every query field of its request  *)
(* and of no other; a request with check_awake and get_ids gets one reply  *)
(* with both awake and ids.                                                *)
(***************************************************************************)
C7_CombinedFields ==
    /\ (Done /\ IsRequest /\ h.outcome = "replied") =>
           /\ "awake" \in h.reply.has <=> "check_awake" \in Asked
           /\ "ids" \in h.reply.has <=> "get_ids" \in Asked
           /\ "orientation" \in h.reply.has <=> "get_robot" \in Asked
           /\ "neighbours" \in h.reply.has <=> "get_robot" \in Asked
           /\ "get_robots" \notin Asked => h.reply.entries = <<>>
    /\ (Done /\ IsRequest /\ Asked = {"check_awake", "get_ids"}) =>
           /\ h.outcome = "replied"
           /\ h.sent = 1
           /\ h.reply.has = {"awake", "ids"}

C7_Witness ==
    /\ Done /\ IsRequest
    /\ h.message.fields = {"check_awake", "get_ids"}
    /\ h.outcome = "replied"
    /\ h.reply.has = {"awake", "ids"}
    /\ Len(h.reply.ids) = 2

(***************************************************************************)
(* C8. Calibration is terminal and frozen: from a calibrated tracker every *)
(* step leaves it calibrated, with the scale factor and the pixel bounds   *)
(* it had, whatever tags are detected.                                     *)
(***************************************************************************)
Calibration(t) ==
    <<t.scale_factor, t.corner_distance_pixels,
      t.min_x, t.min_y, t.max_x, t.max_y>>

C8_CalibrationFrozen ==
    [][tracker.calibrated =>
          /\ tracker'.calibrated
          /\ Calibration(tracker') = Calibration(tracker)]_vars

\* a corner tag processed after calibration, lying outside the bounds
Outside(t, p) ==
    p[1] < t.min_x \/ p[1] > t.max_x \/ p[2] < t.min_y \/ p[2] > t.max_y

C8_Witness ==
    /\ tracker.calibrated
    /\ Len(hist.corner_log) >= 3
    /\ Outside(tracker, hist.corner_log[3])

(***************************************************************************)
(* C9. Calibration determinism: calibrated on corner centres P1 then P2,   *)
(* the scale factor is the pixel distance of P1 and P2 over the reference  *)
(* distance, and calibrating on P2 then P1 gives the same.                 *)
(***************************************************************************)
C9_CalibrationDeterminism ==
    (tracker.calibrated /\ Len(hist.corner_log) >= 2) =>
        LET p1 == hist.corner_log[1]
            p2 == hist.corner_log[2]
        IN  /\ tracker.scale_factor =
                   <<DistSq(p1, p2), CornerDistanceCm * CornerDistanceCm>>
            /\ CornerTag(CornerTag(TrackerInit, p2), p1).scale_factor =
                   tracker.scale_factor

\* P2 right of and above P1: neither corner of the box is a tag centre
C9_Witness ==
    /\ tracker.calibrated
    /\ Len(hist.corner_log) >= 2
    /\ hist.corner_log[1][1] < hist.corner_log[2][1]
    /\ hist.corner_log[1][2] > hist.corner_log[2][2]
    /\ tracker.scale_factor[1] > 0

(***************************************************************************)
(* C10. More than two corner tags in the cycle that calibrates.            *)
(***************************************************************************)
\* the cycle that calibrated is over and its frame held over two corner tags
ManyCorners ==
    /\ run.pc = "frame"
    /\ tracker.calibrated
    /\ Len(hist.corner_log) - run.corners_before > 2

SeqMin(s, c) == CHOOSE v \in {s[n][c] : n \in 1..Len(s)} :
                    \A n \in 1..Len(s) : v <= s[n][c]

SeqMax(s, c) == CHOOSE v \in {s[n][c] : n \in 1..Len(s)} :
                    \A n \in 1..Len(s) : v >= s[n][c]

\* the bounds are the bounding box of the centres s, the scale factor is
\* computed from that box
BoxOf(t, s) ==
    /\ t.min_x = SeqMin(s, 1) /\ t.max_x = SeqMax(s, 1)
    /\ t.min_y = SeqMin(s, 2) /\ t.max_y = SeqMax(s, 2)
    /\ t.scale_factor =
           <<DistSq(<<SeqMin(s, 1), SeqMin(s, 2)>>,
                    <<SeqMax(s, 1), SeqMax(s, 2)>>),
             CornerDistanceCm * CornerDistanceCm>>

\* C10 as claimed: every corner tag of that cycle widens the box, so at the
\* end of the cycle the bounds are the min/max over all corner tags seen so
\* far and the scale factor is computed from that box
C10_AllCornersWiden == ManyCorners => BoxOf(tracker, hist.corner_log)

\* C10 as amended: the first two corner tags seen set the box, the further
\* corner tags of the cycle are ignored: at the end of the cycle the bounds
\* are the min/max over the first two corner centres and the scale factor is
\* computed from that box
C10_FirstTwoCornersSetBox ==
    ManyCorners => BoxOf(tracker, SubSeq(hist.corner_log, 1, 2))

C10_Witness ==
    /\ ManyCorners
    /\ run.corners_before = 0
    /\ Outside(tracker, hist.corner_log[3])
    /\ tracker.scale_factor[1] > 0

(***************************************************************************)
(* C11. No self-neighbouring: in every reachable state no robot of the     *)
(* mapping has its own ID among the keys of its neighbours.                *)
(***************************************************************************)
C11_NoSelfNeighbour ==
    \A n \in 1..Len(tracker.robots) :
        ~DictHas(tracker.robots[n].v.neighbours, tracker.robots[n].k)

\* the neighbour pass is over and has given every one of two or more robots
\* a neighbour: each robot was within its own range and was passed over
C11_Witness ==
    /\ run.pc = "frame"
    /\ Len(tracker.robots) >= 2
    /\ \A n \in 1..Len(tracker.robots) : tracker.robots[n].v.neighbours # <<>>

(***************************************************************************)
(* C12. Range rule: at the end of a cycle's neighbour pass, for every      *)
(* ordered pair (A, B) of distinct robots, B's ID is a key of A.neighbours *)
(* iff the metric distance of A and B is strictly less than A's range.     *)
(***************************************************************************)
\* distance(A, B) < A.sensor_range in metric space, where a pixel distance p
\* is the metric distance p * CornerDistanceCm / corner distance in pixels
\* (tracker.corner_distance_pixels holds the square of the latter)
Near(a, b) ==
    DistSq(<<a.position.x, a.position.y>>, <<b.position.x, b.position.y>>)
            * CornerDistanceCm * CornerDistanceCm
        < a.sensor_range * a.sensor_range * tracker.corner_distance_pixels

C12_RangeRule ==
    (run.pc = "frame" /\ tracker.calibrated) =>
        \A a, b \in 1..Len(tracker.robots) :
            a # b =>
                (DictHas(tracker.robots[a].v.neighbours, tracker.robots[b].k)
                    <=> Near(tracker.robots[a].v, tracker.robots[b].v))

\* a cycle is over that left a robot with one robot in range and another
\* one out of range
C12_Witness ==
    /\ run.pc = "frame" /\ tracker.calibrated
    /\ \E a, b, c \in 1..Len(tracker.robots) :
          /\ a # b /\ a # c
          /\ DictHas(tracker.robots[a].v.neighbours, tracker.robots[b].k)
          /\ ~DictHas(tracker.robots[a].v.neighbours, tracker.robots[c].k)

(***************************************************************************)
(* C13. Rebuild from scratch: a robot ID that was in the mapping at the    *)
(* end of a cycle and is not among the detections of the next cycle is not *)
(* in the mapping at the end of that cycle, neither as a robot nor as a    *)
(* key of a robot's neighbours.                                            *)
(***************************************************************************)
C13_RebuildFromScratch ==
    run.pc = "frame" =>
        \A id \in hist.dropped :
            /\ ~DictHas(tracker.robots, id)
            /\ \A n \in 1..Len(tracker.robots) :
                   ~DictHas(tracker.robots[n].v.neighbours, id)

\* a cycle is over in which a robot of the cycle before was not detected,
\* and which left robots with neighbours
C13_Witness ==
    /\ run.pc = "frame"
    /\ hist.dropped # {}
    /\ \E n \in 1..Len(tracker.robots) : tracker.robots[n].v.neighbours # <<>>

(***************************************************************************)
(* C14. While the tracker is not calibrated the robot mapping is empty in  *)
(* every reachable state, and a request with get_ids or get_robots (and no *)
(* get_robot) that has been dealt with while the tracker is still not      *)
(* calibrated got a reply with an empty robot set, and no error.           *)
(***************************************************************************)
C14_UncalibratedEmpty ==
    ~tracker.calibrated =>
        /\ tracker.robots = <<>>
        /\ (/\ Done /\ IsRequest
            /\ Asked \cap {"get_ids", "get_robots"} # {}
            /\ "get_robot" \notin Asked) =>
               /\ h.outcome = "replied"
               /\ h.error = "none"
               /\ h.reply.ids = <<>>
               /\ h.reply.entries = <<>>

\* get_ids and get_robots answered after the first corner tag, before the
\* second, with robot markers in view
C14_Witness ==
    /\ ~tracker.calibrated
    /\ tracker.num_corner_tags = 1
    /\ run.pc = "tags" /\ Head(run.frame).id # CornerId
    /\ Done /\ IsRequest
    /\ Asked = {"get_ids", "get_robots"}
    /\ h.outcome = "replied"
    /\ h.reply.has = {"ids"}

(***************************************************************************)
(* C15. A raw detection that has not 4 corners is rejected on its own: the *)
(* step that meets it leaves the tracker as it is and the loop goes on     *)
(* with the remaining detections of the frame, then with the rest of the   *)
(* cycle and the next frame.                                               *)
(***************************************************************************)
C15_MalformedRejected ==
    [][(run.pc = "tags" /\ TagRaises(Head(run.frame))) =>
          /\ tracker' = tracker
          /\ run' = AfterTags(tracker, run, Tail(run.frame))]_vars

(***************************************************************************)
(* C16. The failure or the closure of one connection's handler stops       *)
(* neither the tracker thread nor the handlers of the other connections:   *)
(* a step that closes a connection leaves the tracker and its loop as they *)
(* are and every other connection as it is, open ones open; and a request  *)
(* for check_awake or get_ids is answered on whatever connection it comes, *)
(* whatever has become of the other connections.                           *)
(***************************************************************************)
C16_HandlerFailureIsolated ==
    /\ [][\A c \in AllConns :
             (conn[c] /\ ~conn'[c]) =>
                 /\ tracker' = tracker
                 /\ run' = run
                 /\ \A d \in AllConns \ {c} : conn'[d] = conn[d]]_vars
    /\ []((/\ Done /\ IsRequest
           /\ Asked # {} /\ Asked \subseteq {"check_awake", "get_ids"})
              => (h.outcome = "replied" /\ h.error = "none"))

\* the handler of one connection has raised and its connection is closed,
\* while another connection is open and the tracker is within a cycle that
\* has built a robot
C16_Witness ==
    /\ Done /\ h.outcome = "raised" /\ ~conn[h.conn]
    /\ \E d \in AllConns \ {h.conn} : conn[d]
    /\ run.pc = "neighbours"

(***************************************************************************)
(* C17. In every cycle that ends with the tracker calibrated, the cycle in *)
(* which calibration completes included, every detected tag with an ID     *)
(* other than 0 has a Robot in the mapping at the end of the cycle,        *)
(* whatever the order of the detections within the frame.                  *)
(***************************************************************************)
C17_EveryTagTracked ==
    (run.pc = "frame" /\ tracker.calibrated) =>
        \A id \in hist.detected \ {CornerId} : DictHas(tracker.robots, id)

(***************************************************************************)
(* C18. Calibration steps.                                                 *)
(***************************************************************************)
\* the corner count never exceeds 2, the tracker is calibrated iff it is 2,
\* and after the first corner tag overall the count is 1, the tracker is not
\* calibrated and the bounds are min = max = that tag's centre
CornerCount ==
    /\ tracker.num_corner_tags \in 0..2
    /\ tracker.calibrated <=> tracker.num_corner_tags = 2
    /\ tracker.num_corner_tags = 1 =>
           /\ Len(hist.corner_log) = 1
           /\ <<tracker.min_x, tracker.min_y>> = hist.corner_log[1]
           /\ <<tracker.max_x, tracker.max_y>> = hist.corner_log[1]

\* C18 as claimed: CornerCount, and the tracker becomes calibrated only by
\* a second corner tag processed in a later cycle than the first: the cycle
\* that calibrates found the corner count at 1
C18_SecondCornerLaterCycle ==
    /\ CornerCount
    /\ (tracker.calibrated /\ ~run.was_calibrated) => run.corners_before = 1

\* C18 as amended: CornerCount, and the tracker becomes calibrated only by
\* the step that processes a second corner tag, in the cycle of the first
\* corner tag or in a later one
C18_SecondCornerCalibrates ==
    /\ []CornerCount
    /\ [][(~tracker.calibrated /\ tracker'.calibrated) =>
             /\ run.pc = "tags" /\ Head(run.frame).id = CornerId
             /\ tracker.num_corner_tags = 1
             /\ run.corners_before \in {0, 1}]_vars

\* the cycle that saw the first corner tag has calibrated, on two corner
\* tags apart from each other
C18_Witness ==
    /\ tracker.calibrated /\ ~run.was_calibrated
    /\ run.corners_before = 0
    /\ Len(hist.corner_log) = 2
    /\ hist.corner_log[1] # hist.corner_log[2]

(***************************************************************************)
(* C19. A tag with the reserved ID 0 is never tracked as a robot: in every *)
(* reachable state the mapping has no key 0, every robot's id is its key,  *)
(* and no robot's neighbours has the key 0.                                *)
(***************************************************************************)
C19_CornerNeverTracked ==
    /\ ~DictHas(tracker.robots, CornerId)
    /\ \A n \in 1..Len(tracker.robots) :
           /\ tracker.robots[n].v.id = tracker.robots[n].k
           /\ ~DictHas(tracker.robots[n].v.neighbours, CornerId)

\* a calibrated cycle is over whose frame held a corner tag and robots'
\* tags in reach of each other
C19_Witness ==
    /\ run.pc = "frame" /\ run.was_calibrated
    /\ CornerId \in hist.detected
    /\ \E n \in 1..Len(tracker.robots) : tracker.robots[n].v.neighbours # <<>>

(***************************************************************************)
(* C20. Whenever the tracker is calibrated the scale factor is strictly    *)
(* positive, whatever corner tags were seen, so that the division of line  *)
(* 102 never fails.                                                        *)
(***************************************************************************)
C20_ScaleFactorPositive ==
    tracker.calibrated => tracker.scale_factor[1] > 0

====
